---------------------------- MODULE Spec2Model ----------------------------
(***************************************************************************)
(* Model of hex_fdm_example.ipynb: a backward-Euler finite-difference      *)
(* solver of the 2D heat equation on a rectangular and a hexagonal mesh.   *)
(*                                                                         *)
(* The notebook is a sequence of cells that fill global arrays; one action *)
(* models one cell, and DrawStep models one call of drawstep().            *)
(*                                                                         *)
(* Conventions.                                                            *)
(*  - A numpy array is a function with domain 0..len-1 (0-based, as in the *)
(*    source); a 2-D array is an array of rows.                            *)
(*  - A real number the code computes from N, mu, dt by + - * / is an      *)
(*    exact rational <<num, den>> in lowest terms, den > 0 (the code uses  *)
(*    IEEE doubles; rounding is not modelled).                             *)
(*  - exact_u (cos, exp) and the interior part of spsolve are not          *)
(*    computable over the rationals: their results are symbolic terms.     *)
(***************************************************************************)
EXTENDS Integers, Sequences, FiniteSets, TLC

\* ------------------------------------------------------------ bounds
MaxN == 12          \* resolutions tried: N \in 0..MaxN
MaxFrames == 20     \* calls of drawstep() per run

\* ------------------------------------------------------- rationals
Abs(a) == IF a < 0 THEN -a ELSE a

RECURSIVE GCD(_, _)
GCD(a, b) == IF b = 0 THEN a ELSE GCD(b, a % b)

Rat(n, d) ==
    LET s == IF d < 0 THEN -1 ELSE 1
        g == GCD(Abs(n), Abs(d))
    IN  << (s * n) \div g, (s * d) \div g >>

RInt(k) == << k, 1 >>
RAdd(p, q) == Rat(p[1] * q[2] + q[1] * p[2], p[2] * q[2])
RSub(p, q) == Rat(p[1] * q[2] - q[1] * p[2], p[2] * q[2])
RMul(p, q) == Rat(p[1] * q[1], p[2] * q[2])
RDiv(p, q) == Rat(p[1] * q[2], p[2] * q[1])
RNeg(p) == << -p[1], p[2] >>
RLess(p, q) == p[1] * q[2] < q[1] * p[2]

\* ------------------------------------------------- numpy array helpers
Size(a) == Cardinality(DOMAIN a)

\* a Python tuple/list literal as a 0-based array
Arr(t) == [k \in 0..(Len(t) - 1) |-> t[k + 1]]

\* np.arange(a, b)
arange(a, b) == [k \in 0..(b - a - 1) |-> a + k]

\* a[::2]
EveryOther(a) == [k \in 0..(((Size(a) + 1) \div 2) - 1) |-> a[2 * k]]

\* a[::-1]
Reversed(a) == [k \in DOMAIN a |-> a[Size(a) - 1 - k]]

\* a[lo:hi] for 0 <= lo <= hi <= len(a)
Slice(a, lo, hi) == [k \in 0..(hi - lo - 1) |-> a[lo + k]]

\* np.hstack((a, b)) and np.vstack((a, b)) of two arrays (of rows)
Cat(a, b) ==
    [k \in 0..(Size(a) + Size(b) - 1) |->
        IF k < Size(a) THEN a[k] ELSE b[k - Size(a)]]

\* np.hstack / np.vstack of a list of arrays
RECURSIVE CatAll(_)
CatAll(parts) ==
    IF Size(parts) = 0 THEN << >>
    ELSE Cat(CatAll(Slice(parts, 0, Size(parts) - 1)), parts[Size(parts) - 1])

\* np.vstack((c0, c1, ...)).T : row k holds the k-th entry of every ci
Transposed(cols) ==
    [k \in DOMAIN cols[0] |-> [p \in DOMAIN cols |-> cols[p][k]]]

\* np.hstack(m) of a 2-D array with rows of width w: row-major flattening
Flat(m, w) == [k \in 0..(Size(m) * w - 1) |-> m[k \div w][k % w]]

\* m + c for an integer 2-D array m
Shifted(m, c) == [k \in DOMAIN m |-> [p \in DOMAIN m[k] |-> m[k][p] + c]]

\* c + a for an integer 1-D array a
Plus(c, a) == [k \in DOMAIN a |-> c + a[k]]

\* m[:, p]
Column(m, p) == [k \in DOMAIN m |-> m[k][p]]

\* the set of entries of an array
Entries(a) == {a[k] : k \in DOMAIN a}

\* ------------------------------------------------ cell 2: resolution
\* a slip: the parity test left out
AssertionHolds_NoParity(n) == n > 4

\* assert N%2 == 0 and N > 4
AssertionHolds(n) == n % 2 = 0 /\ n > 4

\* ------------------------------------------------- cell 3: hex grid
hhat(n) == RDiv(RInt(1), RInt(n))
off_x(n) == RMul(Rat(1, 2), hhat(n))
short_x(n) == hhat(n)
long_x(n) == RMul(RInt(2), hhat(n))

\* off_y = hhat*sqrt(3)/2 is irrational: a y value is kept as its rational
\* coefficient of sqrt(3); the quotient of two such values is rational.
off_y(n) == RDiv(hhat(n), RInt(2))

\* np.where(jdx % 2 == 1, 1, 0), one entry per row j
initoff(n) == [j \in 0..(n - 1) |-> IF j % 2 = 1 THEN 1 ELSE 0]

\* np.where((idx+1) % 2 == jdx % 2, 1, 0): shortoff[j][i], i < N-1
shortoff(n) ==
    [j \in 0..(n - 1) |->
        [i \in 0..(n - 2) |-> IF (i + 1) % 2 = j % 2 THEN 1 ELSE 0]]

\* short_x * shortoff + long_x * (1-shortoff): the width of the edge
\* between columns i and i+1 of row j
hex_widths(n) ==
    [j \in 0..(n - 1) |->
        [i \in 0..(n - 2) |->
            RAdd(RMul(short_x(n), RInt(shortoff(n)[j][i])),
                 RMul(long_x(n), RInt(1 - shortoff(n)[j][i])))]]

\* cumsum of one row
RECURSIVE CumSumAt(_, _)
CumSumAt(row, i) ==
    IF i = 0 THEN row[0] ELSE RAdd(CumSumAt(row, i - 1), row[i])

\* np.hstack((initoff*off_x, hex_x)).cumsum(axis=1)
hex_x_grid(n) ==
    LET first == [j \in 0..(n - 1) |-> RMul(RInt(initoff(n)[j]), off_x(n))]
        w == hex_widths(n)
        rows == [j \in 0..(n - 1) |->
                    [i \in 0..(n - 1) |-> IF i = 0 THEN first[j] ELSE w[j][i - 1]]]
    IN  [j \in 0..(n - 1) |-> [i \in 0..(n - 1) |-> CumSumAt(rows[j], i)]]

\* a.max() of a 1-D array of rationals
ArrayMax(a) == CHOOSE m \in Entries(a) : \A v \in Entries(a) : ~RLess(m, v)

\* a / a.max()
Normalized(a) == LET m == ArrayMax(a) IN [k \in DOMAIN a |-> RDiv(a[k], m)]

\* hex_x.resize(N*N,1); hex_x = np.hstack(hex_x) / hex_x.max()
hex_x_of(n) == Normalized(Flat(hex_x_grid(n), n))

\* hex_y = off_y * jdx; resize; hex_y = np.hstack(hex_y) / hex_y.max()
hex_y_of(n) ==
    Normalized(Flat([j \in 0..(n - 1) |->
                        [i \in 0..(n - 1) |-> RMul(off_y(n), RInt(j))]], n))

\* ------------------------------------------ cell 4: hex boundary lists
hex_bcs_left(n) == [k \in 0..(n - 1) |-> arange(0, n)[k] * n]
hex_bcs_right(n) == [k \in 0..(n - 1) |-> arange(0, n)[k] * n + n - 1]

\* np.arange(1,N-1)[::2]
OddCols(n) == EveryOther(arange(1, n - 1))

hex_bcs_bottom(n) ==
    LET a == OddCols(n)
        quad == Transposed(Arr(<< a, Plus(1, a), Plus(1 + n, a), Plus(2 + n, a) >>))
        all == Cat(Arr(<< n + 1 >>), Flat(quad, 4))
    IN  Slice(all, 0, Size(all) - 1)

hex_bcs_top(n) ==
    LET a == OddCols(n)
        quad == Transposed(Arr(<< Plus(n * (n - 1), a),
                                  Plus(-n + n * (n - 1), a),
                                  Plus(1 - n + n * (n - 1), a),
                                  Plus(1 + n * (n - 1), a) >>))
    IN  Flat(quad, 4)

hex_bcs_all_of(n) ==
    CatAll(Arr(<< hex_bcs_bottom(n), hex_bcs_right(n),
                  Reversed(hex_bcs_top(n)), Reversed(hex_bcs_left(n)) >>))

\* ---------------------------------------------- cell 5: hex stencils
\* np.arange(N-1)[::2]
EvenCols(n) == EveryOther(arange(0, n - 1))

hex_tmp_r(n) ==
    LET a == EvenCols(n)
    IN  Transposed(Arr(<< Plus(1 + n, a), Plus(1 + 2 * n, a),
                          Plus(2 + 2 * n, a), Plus(3 * n + 1, a) >>))

\* a slip: the first sub-block takes every row of hex_tmp_r, as hex_polys
\* does for its second
hex_block_r_AllRows(n, j) ==
    LET t == hex_tmp_r(n)
    IN  Cat(Shifted(t, 2 * j * n),
            Shifted(Slice(t, 1, Size(t)), (2 * j + 1) * n - 1))

\* one row-pair block j of hex_stencil_r
hex_block_r(n, j) ==
    LET t == hex_tmp_r(n)
    IN  Cat(Shifted(Slice(t, 0, Size(t) - 1), 2 * j * n),
            Shifted(Slice(t, 1, Size(t)), (2 * j + 1) * n - 1))

hex_stencil_r_of(n) ==
    CatAll([j \in 0..((n \div 2) - 3) |-> hex_block_r(n, j)])

\* a slip: +1 for -1 in the second column
hex_tmp_l_PlusOne(n) ==
    LET a == EvenCols(n)
    IN  Transposed(Arr(<< Plus(n, a), Plus(1 + 2 * n, a),
                          Plus(2 * n, a), Plus(3 * n, a) >>))

hex_tmp_l(n) ==
    LET a == EvenCols(n)
    IN  Transposed(Arr(<< Plus(n, a), Plus(-1 + 2 * n, a),
                          Plus(2 * n, a), Plus(3 * n, a) >>))

\* one row-pair block j of hex_stencil_l
hex_block_l(n, j) ==
    LET t == hex_tmp_l(n)
    IN  Cat(Shifted(Slice(t, 1, Size(t)), 2 * j * n),
            Shifted(Slice(t, 1, Size(t)), (2 * j + 1) * n - 1))

hex_stencil_l_of(n) ==
    CatAll([j \in 0..((n \div 2) - 3) |-> hex_block_l(n, j)])

\* np.hstack((hex_stencil_r[:,2], hex_stencil_l[:,1]))
hex_centr_of(sr, sl) == Cat(Column(sr, 2), Column(sl, 1))

\* ---------------------------------------------- cell 6: rectangular grid
\* np.linspace(0,1,N)
linspace01(n) == [i \in 0..(n - 1) |-> RMul(RInt(i), RDiv(RInt(1), RInt(n - 1)))]

\* sX,sY = np.meshgrid(rect_x,rect_y); rect_x = np.hstack(sX)
rect_x_of(n) ==
    Flat([j \in 0..(n - 1) |-> [i \in 0..(n - 1) |-> linspace01(n)[i]]], n)

rect_y_of(n) ==
    Flat([j \in 0..(n - 1) |-> [i \in 0..(n - 1) |-> linspace01(n)[j]]], n)

\* idx, jdx = np.meshgrid(arange(1,N-1), arange(1,N-1)); hstack(jdx*N + idx)
rect_centr_of(n) ==
    LET a == arange(1, n - 1)
    IN  Flat([j \in DOMAIN a |-> [i \in DOMAIN a |-> a[j] * n + a[i]]], n - 2)

\* np.hstack((c-N, c-1, c, c+1, c+N)) on the column vector c
rect_stencil_of(n) ==
    LET c == rect_centr_of(n)
    IN  [k \in DOMAIN c |->
            Arr(<< c[k] - n, c[k] - 1, c[k], c[k] + 1, c[k] + n >>)]

rect_bcs_left(n) == [k \in 0..(n - 3) |-> arange(1, n - 1)[k] * n]
\* a slip: the right edge taken one column short
rect_bcs_right_Short(n) == [k \in 0..(n - 3) |-> arange(1, n - 1)[k] * n + n - 2]

rect_bcs_right(n) == [k \in 0..(n - 3) |-> arange(1, n - 1)[k] * n + n - 1]
rect_bcs_bottom(n) == arange(0, n)
rect_bcs_top(n) == Plus((n - 1) * n, arange(0, n))

rect_bcs_all_of(n) ==
    CatAll(Arr(<< rect_bcs_bottom(n), rect_bcs_right(n),
                  Reversed(rect_bcs_top(n)), Reversed(rect_bcs_left(n)) >>))

\* ------------------------------------------- cell 7: operator assembly
\* np.repeat(a, r) and np.tile(a, reps)
Repeat(a, r) == [k \in 0..(Size(a) * r - 1) |-> a[k \div r]]
Tile(a, reps) == [k \in 0..(Size(a) * reps - 1) |-> a[k % Size(a)]]

RECURSIVE RSum(_, _)
\* the sum of data[k] over the positions k in ks
RSum(data, ks) ==
    IF ks = {} THEN RInt(0)
    ELSE LET k == CHOOSE x \in ks : TRUE
         IN  RAdd(data[k], RSum(data, ks \ {k}))

\* scipy.sparse.csr_matrix((data, (rows, cols)), shape=(n2, n2)): a sparse
\* matrix is kept by rows, M[i] being the function from the stored columns of
\* row i to their values; entries given for the same position are summed.
csr_matrix(data, rows, cols, n2) ==
    [i \in 0..(n2 - 1) |->
        LET ks == {k \in DOMAIN data : rows[k] = i}
        IN  [c \in {cols[k] : k \in ks} |->
                RSum(data, {k \in ks : cols[k] = c})]]

\* A + B for sparse matrices of the same shape
SparseAdd(A, B) ==
    [i \in DOMAIN A |->
        [c \in (DOMAIN A[i]) \cup (DOMAIN B[i]) |->
            IF c \in DOMAIN A[i] /\ c \in DOMAIN B[i] THEN RAdd(A[i][c], B[i][c])
            ELSE IF c \in DOMAIN A[i] THEN A[i][c] ELSE B[i][c]]]

h_of(n) == RDiv(RInt(1), RInt(n))
dt == Rat(5, 100)
mu == Rat(1, 100)

\* exact_u(t,x,y) = cos(2 pi x) cos(2 pi y) exp(-8 mu t pi^2): a symbolic term
exact_u(t, x, y) == << "exact_u", t, x, y >>

\* exact_u(t, xs[idx], ys[idx])
ExactAt(t, xs, ys, idx) ==
    [k \in DOMAIN idx |-> exact_u(t, xs[idx[k]], ys[idx[k]])]

\* csr_matrix((1 + 0*rows, (rows, bcs))) with rows = np.arange(len(bcs))
I_bc_of(bcs, n2) ==
    LET rows == arange(0, Size(bcs))
    IN  csr_matrix([k \in DOMAIN rows |-> RInt(1 + 0 * rows[k])], rows, bcs, n2)

\* rect_rows_bulk_start_idx / hex_rows_bulk_start_idx = 1 + rows[-1]
bulk_start_idx_of(bcs) == 1 + arange(0, Size(bcs))[Size(bcs) - 1]

\* mu/h**2 ; -1/dt - mu*4/h**2
rect_off(hh) == RDiv(mu, RMul(hh, hh))
rect_diag(hh) ==
    RSub(RDiv(RInt(-1), dt), RDiv(RMul(mu, RInt(4)), RMul(hh, hh)))

rect_elmt_of(n, hh) ==
    Tile(Arr(<< rect_off(hh), rect_off(hh), rect_diag(hh),
                rect_off(hh), rect_off(hh) >>), (n - 2) * (n - 2))

rect_A_of(n, hh, bcs, centr, stencil) ==
    LET rows == Plus(bulk_start_idx_of(bcs), Repeat(arange(0, Size(centr)), 5))
        cols == Flat(stencil, 5)
    IN  csr_matrix(rect_elmt_of(n, hh), rows, cols, n * n)

\* mu*4/(3*h**2) ; -mu*4/(h**2) - 1/dt
hex_off(hh) == RDiv(RMul(mu, RInt(4)), RMul(RInt(3), RMul(hh, hh)))
hex_diag(hh) ==
    RSub(RDiv(RMul(RNeg(mu), RInt(4)), RMul(hh, hh)), RDiv(RInt(1), dt))

hex_elmt_r_of(hh, sr) ==
    Tile(Arr(<< hex_off(hh), hex_diag(hh), hex_off(hh), hex_off(hh) >>), Size(sr))

hex_elmt_l_of(hh, sl) ==
    Tile(Arr(<< hex_off(hh), hex_off(hh), hex_diag(hh), hex_off(hh) >>), Size(sl))

\* hex_rows = hex_rows_bulk_start_idx + np.repeat(np.arange(len(sr)), 4)
hex_rows_r(bcs, sr) ==
    Plus(bulk_start_idx_of(bcs), Repeat(arange(0, Size(sr)), 4))

\* a slip: the left rows start where the right rows start
hex_rows_l_NoOffset(bcs, sr, sl) ==
    Plus(bulk_start_idx_of(bcs), Repeat(arange(0, Size(sl)), 4))

\* hex_rows = 1 + hex_rows[-1] + np.repeat(np.arange(len(sl)), 4)
hex_rows_l(bcs, sr, sl) ==
    LET prev == hex_rows_r(bcs, sr)
    IN  Plus(1 + prev[Size(prev) - 1], Repeat(arange(0, Size(sl)), 4))

hex_A_r_of(n2, hh, bcs, sr) ==
    csr_matrix(hex_elmt_r_of(hh, sr), hex_rows_r(bcs, sr), Flat(sr, 4), n2)

hex_A_l_of(n2, hh, bcs, sr, sl) ==
    csr_matrix(hex_elmt_l_of(hh, sl), hex_rows_l(bcs, sr, sl), Flat(sl, 4), n2)

\* rect_M = rect_I_bc + rect_A
rect_M_of(n, hh, bcs, centr, stencil) ==
    SparseAdd(I_bc_of(bcs, n * n), rect_A_of(n, hh, bcs, centr, stencil))

\* hex_M = hex_I_bc + hex_A_r + hex_A_l
hex_M_of(n2, hh, bcs, sr, sl) ==
    SparseAdd(SparseAdd(I_bc_of(bcs, n2), hex_A_r_of(n2, hh, bcs, sr)),
              hex_A_l_of(n2, hh, bcs, sr, sl))

\* vec[idx] = vals (numpy fancy assignment; for a repeated index the last
\* value stays)
Assigned(vec, idx, vals) ==
    [r \in DOMAIN vec |->
        LET ks == {k \in DOMAIN idx : idx[k] = r}
        IN  IF ks = {} THEN vec[r]
            ELSE vals[CHOOSE k \in ks : \A k2 \in ks : k2 <= k]]

\* rhs = np.zeros(N2); rhs[np.arange(len(bcs))] = exact_u(0, x[bcs], y[bcs])
rhs_of(n, xs, ys, bcs) ==
    Assigned([r \in 0..(n * n - 1) |-> RInt(0)],
             arange(0, Size(bcs)), ExactAt(RInt(0), xs, ys, bcs))

\* bulk_rhs_rows = rows_bulk_start_idx + np.arange(centr.shape[0])
bulk_rhs_rows_of(bcs, centr) ==
    Plus(bulk_start_idx_of(bcs), arange(0, Size(centr)))

\* --------------------------------------------- cell 9: drawstep, the step
\* -v/dt for a symbolic solution value v
NegOverDt(v) == << "neg_div", v, dt >>

RAbs(p) == << Abs(p[1]), p[2] >>

\* the columns of row i holding a nonzero
RowCols(M, i) == {c \in DOMAIN M[i] : M[i][c][1] # 0}

RECURSIVE AbsSum(_, _)
\* the sum of |row[c]| over the columns c in cs
AbsSum(row, cs) ==
    IF cs = {} THEN RInt(0)
    ELSE LET c == CHOOSE x \in cs : TRUE
         IN  RAdd(RAbs(row[c]), AbsSum(row, cs \ {c}))

\* the column of row i whose entry exceeds the sum of the others in absolute
\* value: the empty set or a single column
DominantCols(M, i) ==
    {c \in RowCols(M, i) : RLess(AbsSum(M[i], RowCols(M, i) \ {c}), RAbs(M[i][c]))}

\* M is strictly diagonally dominant after a permutation of its rows (every
\* row has a dominant column and no two rows share it), hence nonsingular:
\* M x = b has exactly one solution
Dominant(M) ==
    Cardinality(UNION {DominantCols(M, i) : i \in DOMAIN M}) = Size(M)

\* scipy.sparse.linalg.spsolve(M, b), in exact arithmetic.  A row i whose only
\* nonzero is a 1 in column n gives x[n] = b[i]; every other component is the
\* symbolic term <<"spsolve", tag, n>>, the n-th component of the solution of
\* the system solved at tag = <<mesh, time>>.  A matrix not seen to be
\* nonsingular yields no usable solution ("nan").
spsolve(M, b, tag) ==
    IF ~Dominant(M) THEN [n \in DOMAIN b |-> << "nan" >>]
    ELSE [n \in DOMAIN b |->
             LET rows == {i \in DOMAIN M : RowCols(M, i) = {n} /\ M[i][n] = RInt(1)}
             IN  IF rows # {} THEN b[CHOOSE i \in rows : TRUE]
                 ELSE << "spsolve", tag, n >>]

\* rhs[np.arange(len(bcs))] = exact_u(time, x[bcs], y[bcs])
\* rhs[bulk_rhs_rows] = -u[centr]/dt
step_rhs(rhs, t, xs, ys, bcs, bulk_rows, u, centr) ==
    Assigned(Assigned(rhs, arange(0, Size(bcs)), ExactAt(t, xs, ys, bcs)),
             bulk_rows, [k \in DOMAIN centr |-> NegOverDt(u[centr[k]])])

\* ------------------------------------------------------------- state
VARIABLES
    N,                  \* the resolution
    pc,                 \* the next cell to run
    frame,              \* calls of drawstep() made so far
    hex_x, hex_y,       \* hexagonal mesh: node coordinates
    hex_bcs_all,        \* hexagonal mesh: boundary list
    hex_stencil_r, hex_stencil_l, hex_centr,
    rect_x, rect_y,     \* rectangular mesh: node coordinates
    rect_centr, rect_stencil, rect_bcs_all,
    h,                  \* grid spacing used by the operators
    rect_M, hex_M,      \* system matrices
    rect_bulk_rhs_rows, hex_bulk_rhs_rows,
    rect_rhs, hex_rhs,  \* right-hand sides
    time,
    rect_u, hex_u       \* solution vectors

hexMesh == << hex_x, hex_y >>
hexConn == << hex_bcs_all >>
hexStencils == << hex_stencil_r, hex_stencil_l, hex_centr >>
rectMesh == << rect_x, rect_y, rect_centr, rect_stencil, rect_bcs_all >>
operators == << h, rect_M, hex_M, rect_bulk_rhs_rows, hex_bulk_rhs_rows >>
rhsVars == << rect_rhs, hex_rhs >>
solVars == << time, rect_u, hex_u >>

vars == << N, pc, frame, hexMesh, hexConn, hexStencils, rectMesh, operators,
           rhsVars, solVars >>

\* a global name not assigned yet
Unset == << >>

Init ==
    /\ N \in 0..MaxN
    /\ pc = "assert"
    /\ frame = 0
    /\ hex_x = Unset /\ hex_y = Unset /\ hex_bcs_all = Unset
    /\ hex_stencil_r = Unset /\ hex_stencil_l = Unset /\ hex_centr = Unset
    /\ rect_x = Unset /\ rect_y = Unset /\ rect_centr = Unset
    /\ rect_stencil = Unset /\ rect_bcs_all = Unset
    /\ h = Unset /\ rect_M = Unset /\ hex_M = Unset
    /\ rect_bulk_rhs_rows = Unset /\ hex_bulk_rhs_rows = Unset
    /\ rect_rhs = Unset /\ hex_rhs = Unset
    /\ time = Unset /\ rect_u = Unset /\ hex_u = Unset

\* cell 2, the assertion holds
CellAssertPass ==
    /\ pc = "assert"
    /\ AssertionHolds(N)
    /\ pc' = "hexgrid"
    /\ UNCHANGED << N, frame, hexMesh, hexConn, hexStencils, rectMesh,
                    operators, rhsVars, solVars >>

\* cell 2, the assertion fails: AssertionError, nothing else runs
CellAssertFail ==
    /\ pc = "assert"
    /\ ~AssertionHolds(N)
    /\ pc' = "AssertionError"
    /\ UNCHANGED << N, frame, hexMesh, hexConn, hexStencils, rectMesh,
                    operators, rhsVars, solVars >>

\* cell 3
CellHexGrid ==
    /\ pc = "hexgrid"
    /\ hex_x' = hex_x_of(N)
    /\ hex_y' = hex_y_of(N)
    /\ pc' = "hexconn"
    /\ UNCHANGED << N, frame, hexConn, hexStencils, rectMesh, operators,
                    rhsVars, solVars >>

\* cell 4
CellHexConnectivity ==
    /\ pc = "hexconn"
    /\ hex_bcs_all' = hex_bcs_all_of(N)
    /\ pc' = "hexstencil"
    /\ UNCHANGED << N, frame, hexMesh, hexStencils, rectMesh, operators,
                    rhsVars, solVars >>

\* cell 5
CellHexStencils ==
    /\ pc = "hexstencil"
    /\ hex_stencil_r' = hex_stencil_r_of(N)
    /\ hex_stencil_l' = hex_stencil_l_of(N)
    /\ hex_centr' = hex_centr_of(hex_stencil_r', hex_stencil_l')
    /\ pc' = "rect"
    /\ UNCHANGED << N, frame, hexMesh, hexConn, rectMesh, operators,
                    rhsVars, solVars >>

\* cell 6
CellRect ==
    /\ pc = "rect"
    /\ rect_x' = rect_x_of(N)
    /\ rect_y' = rect_y_of(N)
    /\ rect_centr' = rect_centr_of(N)
    /\ rect_stencil' = rect_stencil_of(N)
    /\ rect_bcs_all' = rect_bcs_all_of(N)
    /\ pc' = "assemble"
    /\ UNCHANGED << N, frame, hexMesh, hexConn, hexStencils, operators,
                    rhsVars, solVars >>

\* cell 7
CellAssemble ==
    /\ pc = "assemble"
    /\ h' = h_of(N)
    /\ rect_M' = rect_M_of(N, h', rect_bcs_all, rect_centr, rect_stencil)
    /\ hex_M' = hex_M_of(N * N, h', hex_bcs_all, hex_stencil_r, hex_stencil_l)
    /\ rect_rhs' = rhs_of(N, rect_x, rect_y, rect_bcs_all)
    /\ hex_rhs' = rhs_of(N, hex_x, hex_y, hex_bcs_all)
    /\ rect_bulk_rhs_rows' = bulk_rhs_rows_of(rect_bcs_all, rect_centr)
    /\ hex_bulk_rhs_rows' = bulk_rhs_rows_of(hex_bcs_all, hex_centr)
    /\ pc' = "drawstep_def"
    /\ UNCHANGED << N, frame, hexMesh, hexConn, hexStencils, rectMesh, solVars >>

\* cell 9: time = 0; def drawstep
CellDrawstepDef ==
    /\ pc = "drawstep_def"
    /\ time' = RInt(0)
    /\ pc' = "animation"
    /\ UNCHANGED << N, frame, hexMesh, hexConn, hexStencils, rectMesh,
                    operators, rhsVars, rect_u, hex_u >>

\* cell 10, before the animation: time = 0; u = exact_u(time, x, y)
CellAnimationInit ==
    /\ pc = "animation"
    /\ time' = RInt(0)
    /\ hex_u' = ExactAt(time', hex_x, hex_y, arange(0, N * N))
    /\ rect_u' = ExactAt(time', rect_x, rect_y, arange(0, N * N))
    /\ pc' = "stepping"
    /\ UNCHANGED << N, frame, hexMesh, hexConn, hexStencils, rectMesh,
                    operators, rhsVars >>

\* a slip: the step folds the boundary rows into the global matrix again
DrawStep_Reassembles ==
    /\ pc = "stepping"
    /\ frame < MaxFrames
    /\ rect_rhs' = step_rhs(rect_rhs, time, rect_x, rect_y, rect_bcs_all,
                            rect_bulk_rhs_rows, rect_u, rect_centr)
    /\ hex_rhs' = step_rhs(hex_rhs, time, hex_x, hex_y, hex_bcs_all,
                           hex_bulk_rhs_rows, hex_u, hex_centr)
    /\ rect_M' = SparseAdd(I_bc_of(rect_bcs_all, N * N), rect_M)
    /\ rect_u' = spsolve(rect_M', rect_rhs', << "rect", time >>)
    /\ hex_u' = spsolve(hex_M, hex_rhs', << "hex", time >>)
    /\ time' = RAdd(time, dt)
    /\ frame' = frame + 1
    /\ UNCHANGED << N, pc, hexMesh, hexConn, hexStencils, rectMesh, h, hex_M,
                    rect_bulk_rhs_rows, hex_bulk_rhs_rows >>

\* one call of drawstep(): the section under "# Step"
DrawStep ==
    /\ pc = "stepping"
    /\ frame < MaxFrames
    /\ rect_rhs' = step_rhs(rect_rhs, time, rect_x, rect_y, rect_bcs_all,
                            rect_bulk_rhs_rows, rect_u, rect_centr)
    /\ hex_rhs' = step_rhs(hex_rhs, time, hex_x, hex_y, hex_bcs_all,
                           hex_bulk_rhs_rows, hex_u, hex_centr)
    /\ rect_u' = spsolve(rect_M, rect_rhs', << "rect", time >>)
    /\ hex_u' = spsolve(hex_M, hex_rhs', << "hex", time >>)
    /\ time' = RAdd(time, dt)
    /\ frame' = frame + 1
    /\ UNCHANGED << N, pc, hexMesh, hexConn, hexStencils, rectMesh, operators >>

Next ==
    \/ CellAssertPass
    \/ CellAssertFail
    \/ CellHexGrid
    \/ CellHexConnectivity
    \/ CellHexStencils
    \/ CellRect
    \/ CellAssemble
    \/ CellDrawstepDef
    \/ CellAnimationInit
    \/ DrawStep

Spec == Init /\ [][Next]_vars

\* ----------------------------------------------------------- properties
\* the cells in the order they run
CellOrder ==
    << "assert", "hexgrid", "hexconn", "hexstencil", "rect", "assemble",
       "drawstep_def", "animation", "stepping" >>

CellPos(p) == CHOOSE k \in 1..Len(CellOrder) : CellOrder[k] = p

\* the cell waiting at pc value p has run
Ran(p) == pc # "AssertionError" /\ CellPos(pc) > CellPos(p)

Nodes == 0..(N * N - 1)

\* every node index is in exactly one of the two lists
Partition(bcs, centr) ==
    /\ Entries(bcs) \cup Entries(centr) = Nodes
    /\ Entries(bcs) \cap Entries(centr) = {}

\* C1: the hexagonal boundary list and stencil-center list partition the node
\* indices 0..N^2-1.
C1_HexPartition ==
    Ran("hexstencil") => Partition(hex_bcs_all, hex_centr)

\* C2: after every time step the new solution equals, at every boundary node
\* of either mesh, the oracle at the new time (the time after the advance).
C2_BoundaryAtNewTime ==
    (pc = "stepping" /\ frame >= 1) =>
        /\ \A k \in DOMAIN rect_bcs_all :
              rect_u[rect_bcs_all[k]] =
                  exact_u(time, rect_x[rect_bcs_all[k]], rect_y[rect_bcs_all[k]])
        /\ \A k \in DOMAIN hex_bcs_all :
              hex_u[hex_bcs_all[k]] =
                  exact_u(time, hex_x[hex_bcs_all[k]], hex_y[hex_bcs_all[k]])

\* C3 as stated: the right and left families have the same number of
\* stencils, (N/2-2)*(N-1).
C3_CountsAsStated ==
    Ran("hexstencil") =>
        /\ Size(hex_stencil_r) = Size(hex_stencil_l)
        /\ Size(hex_stencil_r) = ((N \div 2) - 2) * (N - 1)

\* C3 amended: the right and left families have the same number of stencils,
\* (N/2-2)*(N-2), and with the boundary list they count N^2.
C3_StencilCounts ==
    Ran("hexstencil") =>
        /\ Size(hex_stencil_r) = Size(hex_stencil_l)
        /\ Size(hex_stencil_r) = ((N \div 2) - 2) * (N - 2)
        /\ Size(hex_stencil_r) + Size(hex_stencil_l) + Size(hex_bcs_all) = N * N

C3_Witness ==
    /\ N = 8
    /\ Ran("hexstencil")
    /\ Size(hex_stencil_r) = 12
    /\ Size(hex_stencil_l) = 12

\* rows 0..B-1 of M are the Dirichlet rows of the boundary list: row i holds a
\* single nonzero, 1, at column bcs[i], and no column is used twice
DirichletRows(M, bcs) ==
    /\ \A i \in DOMAIN bcs : RowCols(M, i) = {bcs[i]} /\ M[i][bcs[i]] = RInt(1)
    /\ \A i, j \in DOMAIN bcs : i # j => bcs[i] # bcs[j]

\* rows first..first+len(stencil)-1 of M are the rows of the stencils, in order
StencilRows(M, first, stencil) ==
    \A k \in DOMAIN stencil : RowCols(M, first + k) = Entries(stencil[k])

\* C4: every row of rect_M and hex_M is assigned exactly once: Dirichlet rows
\* first, then one row per stencil with that stencil's nodes as its nonzero
\* columns; right and left rows do not overlap and the rows count N^2.
C4_RowsAssignedOnce ==
    Ran("assemble") =>
        LET rB == Size(rect_bcs_all)
            hB == Size(hex_bcs_all)
            nr == Size(hex_stencil_r)
            nl == Size(hex_stencil_l)
            rowsR == Entries(hex_rows_r(hex_bcs_all, hex_stencil_r))
            rowsL == Entries(hex_rows_l(hex_bcs_all, hex_stencil_r, hex_stencil_l))
        IN  /\ DOMAIN rect_M = Nodes /\ DOMAIN hex_M = Nodes
            /\ DirichletRows(rect_M, rect_bcs_all)
            /\ StencilRows(rect_M, rB, rect_stencil)
            /\ rB + Size(rect_stencil) = N * N
            /\ DirichletRows(hex_M, hex_bcs_all)
            /\ StencilRows(hex_M, hB, hex_stencil_r)
            /\ StencilRows(hex_M, hB + nr, hex_stencil_l)
            /\ rowsR = hB..(hB + nr - 1)
            /\ rowsL = (hB + nr)..(hB + nr + nl - 1)
            /\ rowsR \cap rowsL = {}
            /\ hB + nr + nl = N * N

C4_Witness ==
    /\ N = 8
    /\ Ran("assemble")
    /\ Size(hex_bcs_all) = 40
    /\ RowCols(hex_M, 40) = Entries(hex_stencil_r[0])
    /\ RowCols(hex_M, 52) = Entries(hex_stencil_l[0])

\* nothing has been constructed
NothingBuilt ==
    /\ hex_x = Unset /\ hex_y = Unset /\ hex_bcs_all = Unset
    /\ hex_stencil_r = Unset /\ hex_stencil_l = Unset /\ hex_centr = Unset
    /\ rect_x = Unset /\ rect_y = Unset /\ rect_centr = Unset
    /\ rect_stencil = Unset /\ rect_bcs_all = Unset
    /\ h = Unset /\ rect_M = Unset /\ hex_M = Unset
    /\ rect_rhs = Unset /\ hex_rhs = Unset

\* C5: an odd N or an N <= 4 is rejected before anything is constructed; an
\* even N > 4 (N = 6 among them) is never rejected.
C5_InvalidNRejected ==
    /\ (N % 2 = 1 \/ N <= 4) => (pc \in {"assert", "AssertionError"} /\ NothingBuilt)
    /\ (N % 2 = 0 /\ N > 4) => pc # "AssertionError"

C5_Witness == N = 5 /\ pc = "AssertionError" /\ NothingBuilt

\* C6: the rectangular boundary list and stencil-center list partition the
\* node indices 0..N^2-1.
C6_RectPartition ==
    Ran("rect") => Partition(rect_bcs_all, rect_centr)

C6_Witness ==
    /\ N = 6
    /\ Ran("rect")
    /\ Size(rect_bcs_all) = 20
    /\ Size(rect_centr) = 16

\* what assembly leaves behind for the steps to use
Artifacts ==
    << rect_M, hex_M, rect_x, rect_y, hex_x, hex_y, rect_bcs_all, hex_bcs_all,
       rect_stencil, hex_stencil_r, hex_stencil_l, rect_centr, hex_centr >>

\* C7: a time step changes only the right-hand sides, the solutions and the
\* time: matrices, coordinates, boundary lists, stencils and center lists stay
\* as assembly left them.
C7_StepKeepsArtifacts ==
    [][pc = "stepping" => Artifacts' = Artifacts]_vars

C7_Witness ==
    /\ pc = "stepping"
    /\ frame >= 2
    /\ hex_M = hex_M_of(N * N, h, hex_bcs_all, hex_stencil_r, hex_stencil_l)
    /\ rect_rhs # rhs_of(N, rect_x, rect_y, rect_bcs_all)

\* the column of row i of M holding the diagonal coefficient d
DiagCols(M, i, d) == {c \in DOMAIN M[i] : M[i][c] = d}

\* C8: in every interior row of hex_M, the node whose previous value the step
\* writes into that row's right-hand side is the node carrying the diagonal
\* coefficient of the row.
C8_RhsNodeIsDiagonal ==
    Ran("assemble") =>
        \A k \in DOMAIN hex_centr :
            DiagCols(hex_M, hex_bulk_rhs_rows[k], hex_diag(h)) = {hex_centr[k]}

\* the position of the diagonal coefficient in a family's coefficient tuple
DiagPos(elmt, hh) == CHOOSE p \in 0..3 : elmt[p] = hex_diag(hh)

\* stencil t has its diagonal node at position p, at row r and column c of the
\* mesh, and its other nodes are (r-1,c), (r+1,c) and (r,c+side), the last
\* across a short edge
HoneycombStencil(t, p, side) ==
    LET r == t[p] \div N
        c == t[p] % N
        k == IF side = 1 THEN c ELSE c - 1
    IN  /\ \A q \in DOMAIN t : t[q] \in Nodes
        /\ r - 1 >= 0 /\ r + 1 <= N - 1
        /\ c + side >= 0 /\ c + side <= N - 1
        /\ {t[q] : q \in (DOMAIN t) \ {p}} =
               {(r - 1) * N + c, (r + 1) * N + c, r * N + c + side}
        /\ shortoff(N)[r][k] = 1

\* C9: every hexagonal stencil holds four node indices in range, its three
\* off-diagonal nodes being the honeycomb neighbours of its diagonal node:
\* above, below, and across the short edge to the right (right family) or to
\* the left (left family).
C9_StencilsAreNeighbours ==
    Ran("hexstencil") =>
        LET pr == DiagPos(hex_elmt_r_of(h_of(N), hex_stencil_r), h_of(N))
            pl == DiagPos(hex_elmt_l_of(h_of(N), hex_stencil_l), h_of(N))
        IN  /\ pr = 1 /\ pl = 2
            /\ \A k \in DOMAIN hex_stencil_r :
                   HoneycombStencil(hex_stencil_r[k], pr, 1)
            /\ \A k \in DOMAIN hex_stencil_l :
                   HoneycombStencil(hex_stencil_l[k], pl, -1)

C9_Witness ==
    /\ N = 8
    /\ Ran("hexstencil")
    /\ Size(hex_stencil_r) > 6
    /\ HoneycombStencil(hex_stencil_r[6], 1, 1)
    /\ HoneycombStencil(hex_stencil_l[6], 2, -1)

\* C10: the h of the rectangular coefficients is the distance between
\* horizontally and between vertically adjacent nodes of the rectangular mesh.
C10_HIsNodeSpacing ==
    Ran("assemble") =>
        /\ \A k \in DOMAIN rect_stencil :
              /\ rect_M[Size(rect_bcs_all) + k][rect_stencil[k][1]] = rect_off(h)
              /\ rect_M[Size(rect_bcs_all) + k][rect_stencil[k][2]] = rect_diag(h)
        /\ \A n \in Nodes :
              /\ n % N < N - 1 => RSub(rect_x[n + 1], rect_x[n]) = h
              /\ n + N \in Nodes => RSub(rect_y[n + N], rect_y[n]) = h

=============================================================================
